---- MODULE Spec2Model ----
(***************************************************************************)
(* zshard: shard_file and reconstruct_file of src/src/main.rs.             *)
(*                                                                         *)
(* The state is the part of the file system the two functions touch (the   *)
(* source file, the shard directory, an output file outside of it) and the *)
(* locals of the call in progress.  File names are sequences of byte       *)
(* codes, file contents are sequences of bytes.  One action is one step of *)
(* the straight-line code: the prologue of a function, one iteration of    *)
(* its loop, its return.                                                   *)
(***************************************************************************)
EXTENDS Integers, Sequences, FiniteSets, TLC

\* ------------------------------------------------------------------ bounds
\* longest source file explored (bytes)
MaxLen == 3
\* largest max_size argument explored
MaxSize == 3
\* capacity of BufReader / BufWriter (std's DEFAULT_BUF_SIZE, 8192 in the
\* library, scaled down: only its relation to max_size and to the amount of
\* buffered data matters to the code paths taken)
BufCap == 3
\* calls of shard_file / reconstruct_file in one behaviour
MaxCalls == 2
\* injected I/O errors in one behaviour (NextFault only)
MaxFaults == 1
\* changes made to the directory by its owner between calls (NextEnv only)
MaxEnv == 1
\* directories of up to this many entries are listed in every order
MaxListed == 3
\* reads of the source that return less than they could, in one behaviour
MaxShort == 1

\* ------------------------------------------------------------- constants
\* width of the zero padding in format!("shard_{:04}", part)
PadWidth == 4

Bytes == {97, 98}

\* "shard_"
Prefix == <<115, 104, 97, 114, 100, 95>>

\* ------------------------------------------------------------ pure helpers
Min(a, b) == IF a < b THEN a ELSE b

RECURSIVE Decimal(_)
\* the decimal digits of n, as byte codes ('0' = 48)
Decimal(n) ==
    IF n < 10 THEN <<48 + n>> ELSE Decimal(n \div 10) \o <<48 + (n % 10)>>

\* mutant of ZeroPad: one more digit of padding
ZeroPadWide(s) ==
    IF Len(s) >= PadWidth + 1 THEN s
    ELSE [i \in 1..(PadWidth + 1 - Len(s)) |-> 48] \o s

\* {:04}: left-pad with '0' to PadWidth, never truncate
ZeroPad(s) ==
    IF Len(s) >= PadWidth THEN s
    ELSE [i \in 1..(PadWidth - Len(s)) |-> 48] \o s

\* format!("shard_{:04}", part)
ShardName(part) == Prefix \o ZeroPad(Decimal(part))

\* str::starts_with
StartsWith(name, p) ==
    /\ Len(name) >= Len(p)
    /\ SubSeq(name, 1, Len(p)) = p

\* mutant of LexLess: the comparison reversed
LexLessReversed(a, b) ==
    \E i \in 1..(Min(Len(a), Len(b)) + 1) :
        /\ \A j \in 1..(i - 1) : a[j] = b[j]
        /\ \/ i > Len(b) /\ i <= Len(a)
           \/ i <= Len(a) /\ i <= Len(b) /\ b[i] < a[i]

\* Ord of OsString: byte-wise lexicographic, a proper prefix sorts first
LexLess(a, b) ==
    \E i \in 1..(Min(Len(a), Len(b)) + 1) :
        /\ \A j \in 1..(i - 1) : a[j] = b[j]
        /\ \/ i > Len(a) /\ i <= Len(b)
           \/ i <= Len(a) /\ i <= Len(b) /\ a[i] < b[i]

RECURSIVE InsertByKey(_, _)
InsertByKey(sorted, x) ==
    IF sorted = <<>> THEN <<x>>
    ELSE IF LexLess(x, Head(sorted)) THEN <<x>> \o sorted
    ELSE <<Head(sorted)>> \o InsertByKey(Tail(sorted), x)

\* mutant of SortByKey: the entries stay in listing order
SortByKeyOmitted(list) == list

RECURSIVE SortByKey(_)
\* shards.sort_by_key(|entry| entry.file_name())
SortByKey(list) ==
    IF list = <<>> THEN <<>>
    ELSE InsertByKey(SortByKey(SubSeq(list, 1, Len(list) - 1)), list[Len(list)])

\* mutant of FilterShards: every entry is kept
FilterShardsOmitted(list) == list

\* .filter(|entry| entry.file_name().to_string_lossy().starts_with("shard_"))
RECURSIVE FilterShards(_)
FilterShards(list) ==
    IF list = <<>> THEN <<>>
    ELSE IF StartsWith(Head(list), Prefix)
         THEN <<Head(list)>> \o FilterShards(Tail(list))
         ELSE FilterShards(Tail(list))

\* ------------------------------------------------------------------ state
VARIABLES
    src,        \* the source file's bytes (read only)
    dirExists,  \* whether the shard directory exists
    dir,        \* the shard directory: file name -> contents
    ext,        \* the output file outside the shard directory
    pc,         \* "idle", "shard" (inside shard_file's loop), "rec" (inside reconstruct_file's loop)
    log,        \* one record per call, in call order; the last one is the call in progress
    max_size,   \* shard_file: argument
    part,       \* shard_file: local
    rpos,       \* shard_file: reader, bytes of the source fetched from the file so far
    ravail,     \* shard_file: reader, bytes fetched and not yet handed out
    output,     \* reconstruct_file: argument (ExtPath, or the name of an entry of dir)
    shards,     \* reconstruct_file: local, the entries not yet processed
    wbuf,       \* reconstruct_file: output_file's buffered bytes
    orig,       \* the shards written by the last successful shard_file, as written
    nshort,     \* short reads of the source so far
    nfaults,    \* I/O errors injected so far
    nenv        \* changes made to the directory by its owner so far

vars ==
    <<src, dirExists, dir, ext, pc, log, max_size, part, rpos, ravail,
      output, shards, wbuf, orig, nshort, nfaults, nenv>>

shardVars == <<max_size, part, rpos, ravail>>
recVars == <<output, shards, wbuf>>

\* ------------------------------------------------------------ file system
EmptyDir == [n \in {} |-> <<>>]

\* "out": the output path when it does not lie in the shard directory
ExtPath == <<111, 117, 116>>
\* "note", "shard": entries whose names do not start with "shard_"
NoteName == <<110, 111, 116, 101>>
ShortName == <<115, 104, 97, 114, 100>>
\* "shard_z": an entry that starts with "shard_" and is no shard
ShardZ == Prefix \o <<122>>

\* File::create on an entry of the directory: created empty or truncated;
\* a plain write of data to it
Put(d, name, data) ==
    [n \in DOMAIN d \cup {name} |-> IF n = name THEN data ELSE d[n]]

IsShard(name) == StartsWith(name, Prefix)

ShardEntries(d) == {n \in DOMAIN d : IsShard(n)}

RECURSIVE SetToSeq(_)
SetToSeq(S) ==
    IF S = {} THEN <<>>
    ELSE LET x == CHOOSE y \in S : TRUE IN <<x>> \o SetToSeq(S \ {x})

Reverse(s) == [i \in 1..Len(s) |-> s[Len(s) + 1 - i]]

Rotations(s) == {SubSeq(s, i, Len(s)) \o SubSeq(s, 1, i - 1) : i \in 1..Len(s)}

\* the orders in which read_dir may return the entries: every order of a
\* small directory, the rotations of one order and of its reverse for a
\* larger one
Listings(S) ==
    IF Cardinality(S) <= MaxListed
    THEN {l \in [1..Cardinality(S) -> S] : \A i, j \in DOMAIN l : l[i] = l[j] => i = j}
    ELSE Rotations(SetToSeq(S)) \cup Rotations(Reverse(SetToSeq(S)))

\* what a read of at most `want` bytes returns with `left` bytes before end
\* of file: any positive count up to both, 0 only at end of file (or for an
\* empty buffer)
InnerRead(want, left) ==
    IF want = 0 \/ left = 0 THEN {0} ELSE 1..Min(want, left)

\* mutant of ExtAfter: each write starts at the beginning of the file
ExtAfterRewound(o, bytes) == IF o = ExtPath THEN [ext EXCEPT !.data = bytes] ELSE ext

\* mutant of DirAfter: the bytes go to the shard being read
DirAfterWrongFile(o, bytes) ==
    IF shards # <<>> THEN [dir EXCEPT ![Head(shards)] = @ \o bytes]
    ELSE IF o = ExtPath THEN dir ELSE [dir EXCEPT ![o] = @ \o bytes]

\* bytes written to the output: appended to the file `o` names
ExtAfter(o, bytes) == IF o = ExtPath THEN [ext EXCEPT !.data = @ \o bytes] ELSE ext
DirAfter(o, bytes) == IF o = ExtPath THEN dir ELSE [dir EXCEPT ![o] = @ \o bytes]

OutData == IF output = ExtPath THEN ext.data ELSE dir[output]

\* -------------------------------------------------------------------- log
\* fresh: the directory held no "shard_" entry when the call was made;
\* dirx: it existed; wfail: a write of the call failed
Call(op, size, o) ==
    [op |-> op, size |-> size, out |-> o, fresh |-> ShardEntries(dir) = {},
     dirx |-> dirExists, wfail |-> FALSE, res |-> "run"]

Last == log[Len(log)]
Ended(res, wfail) ==
    [log EXCEPT ![Len(log)].res = res, ![Len(log)].wfail = @ \/ wfail]

\* ------------------------------------------------------------------- Init
RECURSIVE SeqsUpTo(_)
SeqsUpTo(n) ==
    IF n = 0 THEN {<<>>}
    ELSE LET S == SeqsUpTo(n - 1)
         IN S \cup {Append(s, b) : s \in {t \in S : Len(t) = n - 1}, b \in Bytes}

\* "0123456789"
Digits10 == [i \in 1..10 |-> 47 + i]

Sources == SeqsUpTo(MaxLen) \cup {Digits10}

InitDirs ==
    { [exists |-> FALSE, files |-> EmptyDir],
      [exists |-> TRUE, files |-> (NoteName :> <<97>>) @@ (ShortName :> <<98>>)],
      [exists |-> TRUE, files |-> (ShardName(1) :> <<98>>)] }

Init ==
    /\ src \in Sources
    /\ \E d \in InitDirs : dirExists = d.exists /\ dir = d.files
    /\ ext = [exists |-> TRUE, data |-> <<98>>]
    /\ pc = "idle"
    /\ log = <<>>
    /\ max_size = 0 /\ part = 0 /\ rpos = 0 /\ ravail = 0
    /\ output = ExtPath /\ shards = <<>> /\ wbuf = <<>>
    /\ orig = EmptyDir
    /\ nshort = 0 /\ nfaults = 0 /\ nenv = 0

\* ----------------------------------------------------------- shard_file
\* mutant of ShardStart: the directory is not created before the loop
ShardStartLazy(size, flt) ==
    /\ pc = "idle"
    /\ Len(log) < MaxCalls
    /\ flt \in {"none", "open", "mkdir"}
    /\ flt # "none" => nfaults < MaxFaults
    /\ nfaults' = IF flt = "none" THEN nfaults ELSE nfaults + 1
    /\ LET call == Call("shard", size, <<>>)
       IN IF flt = "none"
          THEN /\ pc' = "shard"
               /\ log' = Append(log, call)
          ELSE /\ pc' = "idle"
               /\ log' = Append(log, [call EXCEPT !.res = "err"])
    /\ max_size' = size /\ part' = 0 /\ rpos' = 0 /\ ravail' = 0
    /\ UNCHANGED <<src, dirExists, dir, ext, recVars, orig, nshort, nenv>>

\* lines 47-52: open the source, allocate the buffer, create the directory
ShardStart(size, flt) ==
    /\ pc = "idle"
    /\ Len(log) < MaxCalls
    /\ flt \in {"none", "open", "mkdir"}
    /\ flt # "none" => nfaults < MaxFaults
    /\ nfaults' = IF flt = "none" THEN nfaults ELSE nfaults + 1
    /\ LET call == Call("shard", size, <<>>)
       IN IF flt = "none"
          THEN /\ pc' = "shard"
               /\ log' = Append(log, call)
               /\ dirExists' = TRUE
               /\ max_size' = size /\ part' = 0 /\ rpos' = 0 /\ ravail' = 0
          ELSE /\ pc' = "idle"
               /\ log' = Append(log, [call EXCEPT !.res = "err"])
               /\ max_size' = size /\ part' = 0 /\ rpos' = 0 /\ ravail' = 0
               /\ UNCHANGED dirExists
    /\ UNCHANGED <<src, dir, ext, recVars, orig, nshort, nenv>>

\* lines 54-65: one iteration of the loop, and line 67 when the read returns 0.
\* n is what the file's read returns when the reader has to go to the file,
\* k the bytes that reach the shard when its write fails.
ShardIter(n, flt, k) ==
    /\ pc = "shard"
    /\ LET fill == ravail = 0
           bypass == fill /\ max_size >= BufCap
           want == IF bypass THEN max_size ELSE BufCap
           got == IF fill THEN n ELSE 0
           avail == ravail + got
           bytes_read == IF bypass THEN got ELSE Min(max_size, avail)
           start == rpos - ravail
           block == SubSeq(src, start + 1, start + bytes_read)
           shard_path == ShardName(part)
           direct == Len(block) >= BufCap
           short == fill /\ n < Min(want, Len(src) - rpos)
       IN /\ n \in (IF fill THEN InnerRead(want, Len(src) - rpos) ELSE {0})
          /\ short /\ flt # "read" => nshort < MaxShort
          /\ nshort' = IF short /\ flt # "read" THEN nshort + 1 ELSE nshort
          /\ flt \in {"none", "read", "create", "write"}
          /\ flt # "none" => nfaults < MaxFaults
          /\ flt = "read" => fill /\ n = Min(want, Len(src) - rpos)
          /\ flt \in {"create", "write"} => bytes_read > 0
          /\ k \in (IF flt = "write" THEN 0..(Len(block) - 1) ELSE {0})
          /\ nfaults' = IF flt = "none" THEN nfaults ELSE nfaults + 1
          /\ CASE flt = "read" ->
                    /\ pc' = "idle" /\ log' = Ended("err", FALSE)
                    /\ rpos' = 0 /\ ravail' = 0
                    /\ UNCHANGED <<dir, max_size, part, orig>>
               [] flt = "create" ->
                    /\ pc' = "idle" /\ log' = Ended("err", FALSE)
                    /\ rpos' = 0 /\ ravail' = 0
                    /\ UNCHANGED <<dir, max_size, part, orig>>
               [] flt = "write" ->
                    /\ dir' = Put(dir, shard_path, SubSeq(block, 1, k))
                    /\ IF direct
                       THEN \* write_all goes to the file and returns the error
                            /\ pc' = "idle" /\ log' = Ended("err", TRUE)
                            /\ rpos' = 0 /\ ravail' = 0
                            /\ UNCHANGED <<max_size, part, orig>>
                       ELSE \* write_all only buffers; the drop at the end of
                            \* the iteration flushes and discards the error
                            /\ pc' = "shard" /\ log' = Ended("run", TRUE)
                            /\ rpos' = rpos + got
                            /\ ravail' = avail - bytes_read
                            /\ part' = part + 1
                            /\ UNCHANGED <<max_size, orig>>
               [] flt = "none" /\ bytes_read = 0 ->
                    /\ pc' = "idle" /\ log' = Ended("ok", FALSE)
                    /\ rpos' = 0 /\ ravail' = 0
                    /\ orig' = [i \in {ShardName(j) : j \in 0..(part - 1)} \cap DOMAIN dir |-> dir[i]]
                    /\ UNCHANGED <<dir, max_size, part>>
               [] flt = "none" /\ bytes_read > 0 ->
                    /\ dir' = Put(dir, shard_path, block)
                    /\ rpos' = rpos + got
                    /\ ravail' = IF bypass THEN 0 ELSE avail - bytes_read
                    /\ part' = part + 1
                    /\ UNCHANGED <<pc, log, max_size, orig>>
    /\ UNCHANGED <<src, dirExists, ext, recVars, nenv>>

\* ------------------------------------------------------ reconstruct_file
\* lines 74-86: create the output file, list, filter and sort the entries
RecStart(o, flt) ==
    /\ pc = "idle"
    /\ Len(log) < MaxCalls
    /\ flt \in {"none", "create", "readdir", "entry"}
    /\ flt # "none" => nfaults < MaxFaults
    /\ LET canCreate == o = ExtPath \/ dirExists
           created == canCreate /\ flt # "create"
           dir1 == IF created /\ o # ExtPath THEN Put(dir, o, <<>>) ELSE dir
           listed == created /\ dirExists /\ flt # "readdir"
           call == Call("rec", 0, o)
       IN /\ flt \in {"create", "readdir"} => canCreate
          /\ flt = "readdir" => dirExists
          /\ flt = "entry" => listed /\ DOMAIN dir1 # {}
          /\ dir' = dir1
          /\ ext' = IF created /\ o = ExtPath
                    THEN [exists |-> TRUE, data |-> <<>>] ELSE ext
          /\ output' = o
          /\ wbuf' = <<>>
          /\ IF listed
             THEN /\ pc' = "rec"
                  /\ log' = Append(log, call)
                  /\ \E listing \in Listings(DOMAIN dir1) :
                        \* an entry read_dir fails to return is skipped
                        LET entries == IF flt = "entry" THEN Tail(listing) ELSE listing
                        IN shards' = SortByKey(FilterShards(entries))
             ELSE /\ pc' = "idle"
                  /\ log' = Append(log, [call EXCEPT !.res = "err"])
                  /\ shards' = <<>>
    /\ nfaults' = IF flt = "none" THEN nfaults ELSE nfaults + 1
    /\ UNCHANGED <<src, dirExists, shardVars, orig, nshort, nenv>>

\* lines 88-95: one iteration of the loop
RecIter(flt, k) ==
    /\ pc = "rec"
    /\ shards # <<>>
    /\ LET shard == Head(shards)
           buffer == dir[shard]
           needFlush == Len(wbuf) + Len(buffer) > BufCap /\ wbuf # <<>>
           direct == Len(buffer) >= BufCap
           kept == IF needFlush THEN <<>> ELSE wbuf
           written ==
               CASE flt = "none" ->
                      (IF needFlush THEN wbuf ELSE <<>>) \o (IF direct THEN buffer ELSE <<>>)
                 [] flt \in {"open", "read"} -> wbuf
                 [] flt = "write" /\ needFlush -> wbuf
                 [] flt = "write" /\ ~needFlush -> SubSeq(buffer, 1, k)
       IN /\ flt \in {"none", "open", "read", "write"}
          /\ flt # "none" => nfaults < MaxFaults
          /\ flt = "write" => needFlush \/ direct
          /\ k \in (IF flt = "write" /\ ~needFlush THEN 0..(Len(buffer) - 1) ELSE {0})
          /\ ext' = ExtAfter(output, written)
          /\ dir' = DirAfter(output, written)
          /\ IF flt = "none"
             THEN /\ pc' = "rec"
                  /\ shards' = Tail(shards)
                  /\ wbuf' = IF direct THEN <<>> ELSE kept \o buffer
                  /\ log' = log
             ELSE \* the error is returned; output_file is dropped, which
                  \* flushes what it still holds
                  /\ pc' = "idle"
                  /\ shards' = <<>>
                  /\ wbuf' = <<>>
                  /\ log' = Ended("err", flt = "write")
    /\ nfaults' = IF flt = "none" THEN nfaults ELSE nfaults + 1
    /\ UNCHANGED <<src, dirExists, shardVars, output, orig, nshort, nenv>>

\* line 97: Ok(()) is returned; output_file is dropped, which flushes the
\* buffered bytes and discards an error of that flush
RecReturn(flt, k) ==
    /\ pc = "rec"
    /\ shards = <<>>
    /\ flt \in {"none", "write"}
    /\ flt # "none" => nfaults < MaxFaults /\ wbuf # <<>>
    /\ k \in (IF flt = "write" THEN 0..(Len(wbuf) - 1) ELSE {0})
    /\ LET written == IF flt = "write" THEN SubSeq(wbuf, 1, k) ELSE wbuf
       IN /\ ext' = ExtAfter(output, written)
          /\ dir' = DirAfter(output, written)
    /\ wbuf' = <<>>
    /\ pc' = "idle"
    /\ log' = Ended("ok", flt = "write")
    /\ nfaults' = IF flt = "none" THEN nfaults ELSE nfaults + 1
    /\ UNCHANGED <<src, dirExists, shardVars, output, shards, orig, nshort, nenv>>

\* ------------------------------------------------------------------- Next
Sizes == 0..MaxSize
OutPaths == {ExtPath, ShardName(1)}
Counts == 0..(MaxSize + BufCap)

Step(Faults) ==
    \/ \E size \in Sizes, flt \in Faults : ShardStart(size, flt)
    \/ \E n \in Counts, flt \in Faults, k \in Counts : ShardIter(n, flt, k)
    \/ \E o \in OutPaths, flt \in Faults : RecStart(o, flt)
    \/ \E flt \in Faults, k \in Counts : RecIter(flt, k)
    \/ \E flt \in Faults, k \in Counts : RecReturn(flt, k)

AllFaults == {"none", "open", "mkdir", "read", "create", "write", "readdir", "entry"}

\* no I/O call fails
Next == Step({"none"})
Spec == Init /\ [][Next]_vars

\* I/O calls may fail
NextFault == Step(AllFaults)
SpecFault == Init /\ [][NextFault]_vars

\* --------------------------------------------- the directory's owner
\* Between a successful shard_file and the next call the owner of the
\* directory may remove, write (create or modify) or rename an entry.
EnvNames == {ShardName(0), ShardName(1), ShardZ, NoteName}
EnvData == {<<>>, <<98>>}

EnvAllowed ==
    /\ pc = "idle"
    /\ nenv < MaxEnv
    /\ Len(log) > 0 /\ Len(log) < MaxCalls
    /\ Last.op = "shard" /\ Last.res = "ok"

EnvRemove(n) ==
    /\ EnvAllowed
    /\ n \in DOMAIN dir
    /\ dir' = [m \in DOMAIN dir \ {n} |-> dir[m]]
    /\ nenv' = nenv + 1
    /\ UNCHANGED <<src, dirExists, ext, pc, log, shardVars, recVars, orig, nshort, nfaults>>

EnvWrite(n, data) ==
    /\ EnvAllowed
    /\ IF n \in DOMAIN dir THEN dir[n] # data ELSE TRUE
    /\ dir' = Put(dir, n, data)
    /\ nenv' = nenv + 1
    /\ UNCHANGED <<src, dirExists, ext, pc, log, shardVars, recVars, orig, nshort, nfaults>>

EnvRename(n, m) ==
    /\ EnvAllowed
    /\ n \in DOMAIN dir /\ m \notin DOMAIN dir
    /\ dir' = [x \in (DOMAIN dir \ {n}) \cup {m} |-> IF x = m THEN dir[n] ELSE dir[x]]
    /\ nenv' = nenv + 1
    /\ UNCHANGED <<src, dirExists, ext, pc, log, shardVars, recVars, orig, nshort, nfaults>>

NextEnv ==
    \/ Next
    \/ \E n \in EnvNames : EnvRemove(n)
    \/ \E n \in EnvNames, data \in EnvData : EnvWrite(n, data)
    \/ \E n \in EnvNames, m \in EnvNames : EnvRename(n, m)

\* the directory does not exist yet and is changed by its owner after sharding
InitEnv == Init /\ ~dirExists /\ Len(src) <= MaxLen
SpecEnv == InitEnv /\ [][NextEnv]_vars

\* ------------------------------------------- the 4-digit boundary of part
\* shard_file inside its loop with `part` just below 10000.  The directory
\* is modelled from shard_<part> on and src is the rest of the source: the
\* names are unique and the sort compares them pairwise, so the entries
\* modelled are ordered among themselves as they are among all entries.
FirstParts == {9997, 9998, 9999}

InitOverflow ==
    /\ src \in SeqsUpTo(MaxLen) \ {<<>>}
    /\ dirExists = TRUE /\ dir = EmptyDir
    /\ ext = [exists |-> FALSE, data |-> <<>>]
    /\ pc = "shard"
    /\ max_size \in 1..MaxSize
    /\ part \in FirstParts
    /\ log = <<[op |-> "shard", size |-> max_size, out |-> <<>>, fresh |-> TRUE,
                dirx |-> TRUE, wfail |-> FALSE, res |-> "run"]>>
    /\ rpos = 0 /\ ravail = 0
    /\ output = ExtPath /\ shards = <<>> /\ wbuf = <<>>
    /\ orig = EmptyDir
    /\ nshort = 0 /\ nfaults = 0 /\ nenv = 0

SpecOverflow == InitOverflow /\ [][Next]_vars

\* ------------------------------------------------------ claims: helpers
OutExists == IF output = ExtPath THEN ext.exists ELSE output \in DOMAIN dir

IsPrefixOf(a, b) == Len(a) <= Len(b) /\ SubSeq(b, 1, Len(a)) = a

RECURSIVE ConcatIdx(_, _)
\* the contents of shard_0000 .. shard_(k-1) of directory d, in index order
ConcatIdx(d, k) ==
    IF k = 0 THEN <<>> ELSE ConcatIdx(d, k - 1) \o d[ShardName(k - 1)]

\* the names of S in ascending byte-lexicographic order
Ascending(S) ==
    [i \in 1..Cardinality(S) |->
        CHOOSE n \in S : Cardinality({m \in S : LexLess(m, n)}) = i - 1]

RECURSIVE Flatten(_, _)
Flatten(names, d) ==
    IF names = <<>> THEN <<>> ELSE d[Head(names)] \o Flatten(Tail(names), d)

Ceil(a, b) == (a + b - 1) \div b

Returned(op) == pc = "idle" /\ Len(log) > 0 /\ Last.op = op

\* a shard_file that succeeded on a directory without shards, followed by a
\* reconstruct_file that succeeded, both just returned
ShardThenRec ==
    /\ Returned("rec") /\ Last.res = "ok"
    /\ Len(log) >= 2
    /\ log[Len(log) - 1].op = "shard" /\ log[Len(log) - 1].res = "ok"
    /\ log[Len(log) - 1].fresh

\* ------------------------------------------------------------------- C1
\* C1: with no I/O error, no change to the directory in between and an
\* output path that is not a "shard_" entry of the directory, shard_file
\* (max_size >= 1, at most 9999 shards, directory without shards before)
\* followed by reconstruct_file leaves an output file equal to the source.
RoundTrip ==
    ( /\ ShardThenRec
      /\ log[Len(log) - 1].size >= 1
      /\ part <= 9999
      /\ ~IsShard(output)
      /\ nfaults = 0 /\ nenv = 0 )
    => OutExists /\ OutData = src

RoundTripWitness ==
    /\ ShardThenRec
    /\ src = Digits10 /\ log[Len(log) - 1].size = 3
    /\ ~IsShard(output) /\ nfaults = 0 /\ nenv = 0
    /\ OutData = Digits10

\* ------------------------------------------------------------------- C2
\* C2: a successful shard_file of a source of length L with max_size S >= 1
\* leaves exactly the shards 0 .. ceil(L/S)-1, each S bytes long except the
\* last (L mod S, or S), however the reads return the data.
ShardCountAndSizes ==
    ( /\ Returned("shard") /\ Last.res = "ok"
      /\ Last.size >= 1 /\ Last.fresh
      /\ nfaults = 0 /\ nenv = 0 )
    => LET L == Len(src)
           S == Last.size
           N == Ceil(L, S)
       IN /\ ShardEntries(dir) = {ShardName(i) : i \in 0..(N - 1)}
          /\ \A i \in 0..(N - 1) :
                Len(dir[ShardName(i)]) =
                    IF i < N - 1 \/ L % S = 0 THEN S ELSE L % S

\* ------------------------------------------------------------------- C4
\* C4 as stated: reconstruct_file on a directory that is missing, empty or
\* without "shard_" entries returns success and leaves an empty output file.
EmptyDirIsSuccess ==
    (Returned("rec") /\ Last.fresh /\ nfaults = 0)
    => Last.res = "ok" /\ OutExists /\ OutData = <<>>

\* C4 amended: on an existing directory without "shard_" entries it returns
\* success and the output file exists and is empty; on a missing directory it
\* returns the error of read_dir (or of File::create, when the output path
\* lies in the missing directory), and an output path outside the directory
\* has been created or truncated to length zero all the same.
EmptyDirOutcome ==
    (Returned("rec") /\ Last.fresh /\ nfaults = 0)
    => IF Last.dirx
       THEN Last.res = "ok" /\ OutExists /\ OutData = <<>>
       ELSE /\ Last.res = "err"
            /\ IF output = ExtPath
               THEN ext.exists /\ ext.data = <<>>
               ELSE ~OutExists

EmptyDirWitness ==
    /\ Returned("rec") /\ Last.fresh /\ Last.dirx /\ nfaults = 0
    /\ NoteName \in DOMAIN dir /\ dir[NoteName] # <<>>
    /\ output = ExtPath /\ ext.data = <<>>

\* ------------------------------------------------------------------- C8
\* a step of shard_file, of reconstruct_file
ShardStep == pc = "shard" \/ (pc = "idle" /\ pc' = "shard")
RecStep == pc = "rec" \/ (pc = "idle" /\ Len(log') > Len(log) /\ log'[Len(log')].op = "rec")

NothingDeleted ==
    /\ DOMAIN dir \subseteq DOMAIN dir'
    /\ dirExists => dirExists'
    /\ ext.exists => ext'.exists

\* C8 as stated: no step of either function changes or removes a shard that
\* a shard_file wrote before, and no step removes a file.
ShardsNeverModified ==
    [][ /\ NothingDeleted
        /\ \A n \in DOMAIN orig : n \in DOMAIN dir => dir'[n] = dir[n] ]_vars

\* C8 amended: no step removes a file or the directory; a step of
\* reconstruct_file changes no file but the one its output path names (which
\* it truncates, also when that is a shard); a step of shard_file changes no
\* file but shard_<part>, so that within one call a shard once written stays
\* as written, while a later call overwrites the shards of the same names.
LifecycleFrame ==
    [][ /\ NothingDeleted
        /\ RecStep =>
              /\ \A n \in DOMAIN dir : n # output' => dir'[n] = dir[n]
              /\ output' # ExtPath => ext' = ext
        /\ ShardStep =>
              /\ ext' = ext
              /\ \A n \in DOMAIN dir : n # ShardName(part) => dir'[n] = dir[n]
              /\ pc = "shard" =>
                    \A j \in 0..(part - 1) : dir'[ShardName(j)] = dir[ShardName(j)] ]_vars

\* reconstruct_file has returned with a shard of an earlier shard_file as
\* its output path, and other shards beside it
LifecycleWitness ==
    /\ ShardThenRec
    /\ output = ShardName(1) /\ output \in DOMAIN orig
    /\ part >= 3
    /\ dir[ShardName(1)] # orig[ShardName(1)]
    /\ dir[ShardName(0)] = orig[ShardName(0)]

\* ------------------------------------------------------------------ C10
\* C10: shard_file with max_size = 0 creates the directory, writes no shard
\* and returns success at its first read, whatever the source holds; a
\* reconstruct_file that follows leaves an empty output.
ZeroSizeStates ==
    /\ (pc = "shard" /\ max_size = 0) => dirExists /\ part = 0
    /\ (Returned("shard") /\ Last.size = 0 /\ nfaults = 0) =>
          /\ Last.res = "ok"
          /\ dirExists /\ part = 0
          /\ Last.fresh => ShardEntries(dir) = {}
    /\ (ShardThenRec /\ log[Len(log) - 1].size = 0 /\ nfaults = 0 /\ ~IsShard(output)) =>
          OutExists /\ OutData = <<>>

ZeroSizeReturns ==
    [][(pc = "shard" /\ max_size = 0) => (pc' = "idle" /\ Last'.res = "ok" /\ dir' = dir)]_vars

ZeroSize == []ZeroSizeStates /\ ZeroSizeReturns

ZeroSizeWitness ==
    /\ ShardThenRec /\ log[Len(log) - 1].size = 0
    /\ ~log[Len(log) - 1].dirx
    /\ src # <<>> /\ output = ExtPath /\ ext.data = <<>> /\ dir = EmptyDir

\* ------------------------------------------------------------------- C5
\* C5: neither function returns success when a write of bytes it was meant
\* to write has failed.
FirstErrorReturned ==
    (pc = "idle" /\ Len(log) > 0 /\ Last.res = "ok") => ~Last.wfail

\* ------------------------------------------------------------------- C9
\* C9: during and after a shard_file on a directory that held no shards,
\* also after an abort, the shards completed so far are shard_0000 ..
\* shard_(part-1), each non-empty and at most max_size bytes long, and their
\* concatenation in index order is a prefix of the source, and the whole
\* source on success.
ShardPrefixInvariant ==
    (Len(log) > 0 /\ Last.op = "shard" /\ Last.fresh /\ Last.size >= 1 /\ nenv = 0)
    => /\ \A j \in 0..(part - 1) :
             /\ ShardName(j) \in DOMAIN dir
             /\ dir[ShardName(j)] # <<>>
             /\ Len(dir[ShardName(j)]) <= Last.size
       /\ \A n \in ShardEntries(dir) : \E j \in 0..part : n = ShardName(j)
       /\ IsPrefixOf(ConcatIdx(dir, part), src)
       /\ (pc = "idle" /\ Last.res = "ok") => ConcatIdx(dir, part) = src

\* ------------------------------------------------------------------- C3
StrictlyAscending(names) ==
    \A i \in 1..(Len(names) - 1) : LexLess(names[i], names[i + 1])

\* C3: reconstruct_file processes the entries whose names start with
\* "shard_", and no others, in strictly ascending byte-lexicographic order of
\* their names, whatever the order of the listing and of their creation; its
\* output is their contents concatenated in that order, each once; for names
\* shard_<4 digits> this is ascending index order.
Ordering ==
    /\ pc = "rec" =>
          /\ StrictlyAscending(shards)
          /\ \A i \in 1..Len(shards) : IsShard(shards[i]) /\ shards[i] \in DOMAIN dir
    /\ (Returned("rec") /\ Last.res = "ok" /\ nfaults = 0 /\ ~IsShard(output)) =>
          /\ OutData = Flatten(Ascending(ShardEntries(dir)), dir)
          /\ \A i, j \in 0..MaxLen :
                ( /\ i < j /\ j <= 9999
                  /\ ShardName(i) \in DOMAIN dir /\ ShardName(j) \in DOMAIN dir )
                => \E a, b \in 1..Cardinality(ShardEntries(dir)) :
                      /\ a < b
                      /\ Ascending(ShardEntries(dir))[a] = ShardName(i)
                      /\ Ascending(ShardEntries(dir))[b] = ShardName(j)

\* the owner added entries after the sharding, one that is no shard and one
\* that sorts between shards written before it
OrderingWitness ==
    /\ Returned("rec") /\ Last.res = "ok" /\ nfaults = 0 /\ ~IsShard(output)
    /\ nenv >= 1
    /\ part = 3 /\ orig # EmptyDir
    /\ {ShardName(0), ShardName(1), ShardName(2)} \subseteq DOMAIN dir
    /\ IF ShardName(1) \in DOMAIN orig THEN dir[ShardName(1)] # orig[ShardName(1)] ELSE TRUE
    /\ Len(OutData) >= 3

\* ------------------------------------------------------------------- C7
\* every shard the last shard_file wrote is still there, as written
Intact == \A n \in DOMAIN orig : n \in DOMAIN dir /\ dir[n] = orig[n]

ChangedThenRec ==
    /\ ShardThenRec
    /\ log[Len(log) - 1].size >= 1
    /\ nfaults = 0
    /\ ~IsShard(output)

\* C7 as stated: after any change to the directory, the output of a
\* successful reconstruct_file equals the source if and only if all original
\* shards are present and unmodified (under their names, hence in order).
ReconstructIff == ChangedThenRec => ((OutData = src) <=> Intact)

\* C7 amended: the output equals the source if all original shards are
\* present and unmodified and every other "shard_" entry is empty; it differs
\* from the source, with no error reported, if some original shards are
\* missing and the directory is otherwise unchanged.  The converse of the
\* first part does not hold.
ReconstructIf ==
    /\ ChangedThenRec =>
          /\ (Intact /\ \A n \in ShardEntries(dir) \ DOMAIN orig : dir[n] = <<>>)
                => OutData = src
          /\ ( /\ ShardEntries(dir) # DOMAIN orig
               /\ ShardEntries(dir) \subseteq DOMAIN orig
               /\ \A n \in ShardEntries(dir) : dir[n] = orig[n] )
                => OutData # src /\ Len(OutData) < Len(src)
    /\ (Returned("rec") /\ Len(log) >= 2 /\ log[Len(log) - 1].res = "ok" /\ nfaults = 0)
          => Last.res = "ok"

\* the middle one of three shards was removed
ReconstructIfWitness ==
    /\ ChangedThenRec
    /\ nenv = 1 /\ part = 3
    /\ DOMAIN dir = {ShardName(0), ShardName(2)}
    /\ OutData = orig[ShardName(0)] \o orig[ShardName(2)]
    /\ OutData # src

\* ------------------------------------------------------------------- C6
\* the indices of the shards in the directory, among those a source of up to
\* MaxLen bytes can get from 0 or from FirstParts on
Present ==
    {i \in (0..MaxLen) \cup (9997..(9999 + MaxLen)) : ShardName(i) \in DOMAIN dir}

RECURSIVE ConcatRange(_, _, _)
\* the contents of the shards lo .. hi-1 of d, in index order
ConcatRange(d, lo, hi) ==
    IF hi <= lo THEN <<>> ELSE ConcatRange(d, lo, hi - 1) \o d[ShardName(hi - 1)]

\* the sharding that went past shard_9999, and the reconstruct_file after it
OverflowThenRec ==
    /\ ShardThenRec
    /\ Len(log) = 2
    /\ nfaults = 0 /\ nenv = 0
    /\ output = ExtPath

====
